---- MODULE Spec2Model ----
(***************************************************************************)
(* Model of DemoEnv ("Demo-v1", src/to_catl/demo.py): a batch of parallel  *)
(* environment instances, the episode reset that re-poses the cube, the    *)
(* four YCB objects, the cabinet and the goal site, and the evaluation,    *)
(* reward and extra-observation functions.                                 *)
(*                                                                         *)
(* Fixed point: lengths are in millimetres, random draws, quaternion       *)
(* components, velocities and rewards in thousandths, angles in half       *)
(* degrees (a full turn is 720).                                           *)
(***************************************************************************)
EXTENDS Integers, Sequences, FiniteSets, TLC

\* ------------------------------------------------------------------------
\* Bounds of the model
\* ------------------------------------------------------------------------
\* Number of parallel environment instances (num_envs of the host).
NumEnvs == 2
\* Seeds the host may hand to torch's generator before a reset: 0..MaxSeed.
MaxSeed == 1

Envs == 0 .. (NumEnvs - 1)
Seeds == 0 .. MaxSeed

\* ------------------------------------------------------------------------
\* Class constants (demo.py lines 39-41), in millimetres
\* ------------------------------------------------------------------------
cube_half_size == 20
goal_thresh == 25
\* 0.386447012424469 m, truncated to the millimetre
cabinet_half_size == 386

\* ------------------------------------------------------------------------
\* Fixed-point helpers
\* ------------------------------------------------------------------------
\* Values a draw of torch.rand / np.random.uniform(0, 1) takes in the model,
\* in thousandths: the low end, the middle, and the draws next to 1 (the
\* largest float32 draw is 1 - 2^-24, which is 1000 at this resolution).
Samples == <<0, 500, 1000>>

\* Values a draw of np.random.uniform takes in the model, in thousandths of
\* its range: the two ends.
UniformSamples == {0, 1000}

\* The k-th scalar torch's generator yields after being seeded with `seed`.
rand(seed, k) == Samples[((seed * (k + 1) + (seed \div 2) * k * k) % 3) + 1]

\* torch.rand((b, 2)): b rows of two consecutive draws, starting at draw off.
rand_b2(seed, off, b) ==
    [r \in 0 .. (b - 1) |-> <<rand(seed, off + 2 * r), rand(seed, off + 2 * r + 1)>>]

\* torch.rand((b)): b consecutive draws, starting at draw off.
rand_b(seed, off, b) == [r \in 0 .. (b - 1) |-> rand(seed, off + r)]

\* a * b for a, b in thousandths
Mul(a, b) == IF a * b >= 0 THEN (a * b) \div 1000 ELSE -((-(a * b)) \div 1000)

\* sin of an angle of x half degrees, 0 <= x <= 360 (Bhaskara's rational
\* approximation, exact at 0, 30, 90, 150 and 180 degrees), in thousandths
SinHalfTurn(x) == (4000 * (x * (360 - x))) \div (162000 - x * (360 - x))

Sin(x) ==
    LET a == x % 720
    IN  IF a <= 360 THEN SinHalfTurn(a) ELSE -SinHalfTurn(a - 360)

Cos(x) == Sin(x + 180)

RECURSIVE SqrtSearch(_, _, _)
SqrtSearch(n, lo, hi) ==
    IF lo >= hi THEN lo
    ELSE LET mid == (lo + hi + 1) \div 2
         IN  IF mid * mid <= n THEN SqrtSearch(n, mid, hi)
             ELSE SqrtSearch(n, lo, mid - 1)

\* floor of the square root
Sqrt(n) == SqrtSearch(n, 0, 4000)

RECURSIVE SumSq(_)
SumSq(v) == IF v = << >> THEN 0 ELSE Head(v) * Head(v) + SumSq(Tail(v))

\* torch.linalg.norm of one row
Norm(v) == Sqrt(SumSq(v))

Sub(a, b) == [k \in DOMAIN a |-> a[k] - b[k]]

RECURSIVE MaxAbs(_)
MaxAbs(v) ==
    IF v = << >> THEN 0
    ELSE LET h == IF Head(v) < 0 THEN -Head(v) ELSE Head(v)
             t == MaxAbs(Tail(v))
         IN  IF h > t THEN h ELSE t

\* tanh at 0, 0.25, ..., 4.0, in thousandths
TanhTable ==
    <<0, 245, 462, 635, 762, 848, 905, 941, 964, 978, 987, 992, 995, 997,
      998, 999, 999>>

\* torch.tanh for x >= 0 in thousandths: the table, linearly interpolated
Tanh(x) ==
    IF x >= 4000 THEN 1000
    ELSE LET k == x \div 250
             lo == TanhTable[k + 1]
             hi == IF k + 2 <= Len(TanhTable) THEN TanhTable[k + 2] ELSE 1000
         IN  lo + ((hi - lo) * (x % 250)) \div 250

\* ------------------------------------------------------------------------
\* Poses
\* ------------------------------------------------------------------------
IdentityQ == <<1000, 0, 0, 0>>

\* Pose.create_from_pq for one row (q defaults to the identity)
create_from_pq(p, q) == [p |-> p, q |-> q]

\* Pose.raw_pose: position followed by quaternion
raw_pose(pose) == pose.p \o pose.q

\* transforms3d.euler.euler2quat(ai, aj, ak), static xyz axes, angles in
\* half degrees, result <<w, x, y, z>>
euler2quat(ai, aj, ak) ==
    LET ci == Cos(ai \div 2)
        si == Sin(ai \div 2)
        cj == Cos(aj \div 2)
        sj == Sin(aj \div 2)
        ck == Cos(ak \div 2)
        sk == Sin(ak \div 2)
        cc == Mul(ci, ck)
        cs == Mul(ci, sk)
        sc == Mul(si, ck)
        ss == Mul(si, sk)
    IN  <<Mul(cj, cc) + Mul(sj, ss),
          Mul(cj, sc) - Mul(sj, cs),
          Mul(cj, ss) + Mul(sj, cc),
          Mul(cj, cs) - Mul(sj, sc)>>

\* randomization.random_quaternions(b, lock_x, lock_y): three angle draws
\* per row in [0, 2 pi), the locked ones multiplied by 0
random_quaternions(seed, off, b, lock_x, lock_y) ==
    [r \in 0 .. (b - 1) |->
        LET ax == (720 * rand(seed, off + 3 * r)) \div 1000
            ay == (720 * rand(seed, off + 3 * r + 1)) \div 1000
            az == (720 * rand(seed, off + 3 * r + 2)) \div 1000
        IN  euler2quat(IF lock_x THEN 0 ELSE ax, IF lock_y THEN 0 ELSE ay, az)]

\* ------------------------------------------------------------------------
\* State
\* ------------------------------------------------------------------------
VARIABLES
    cube,          \* instance -> pose of the red cube
    bowl,          \* instance -> pose of ycb:024_bowl
    mug,           \* instance -> pose of ycb:025_mug
    sugar_box,     \* instance -> pose of ycb:004_sugar_box
    gelatin_box,   \* instance -> pose of ycb:009_gelatin_box
    cabinet,       \* instance -> root pose of partnet-mobility:1005
    goal_site,     \* instance -> pose of the green goal sphere
    tcp,           \* instance -> pose of the robot's tool centre point
    qvel,          \* instance -> joint velocities, the last two the gripper's
    grasping,      \* instance -> agent.is_grasping(cube)
    obs_mode,      \* the observation mode, a sequence of characters
    just_reset,    \* env_idx of the reset no physics step has followed yet
    cabinet_draw,  \* instance -> the two torch.rand values its cabinet's x and
                   \* y were last computed from (lines 147-148)
    info,          \* the last result of evaluate(), << >> before the first
    reward,        \* the last result of compute_dense_reward
    nreward,       \* the last result of compute_normalized_dense_reward
    obs            \* the last result of _get_obs_extra

objects == <<cube, bowl, mug, sugar_box, gelatin_box, cabinet, goal_site>>
robot == <<tcp, qvel, grasping>>
results == <<info, reward, nreward, obs>>
vars == <<objects, robot, obs_mode, just_reset, cabinet_draw, results>>

\* ------------------------------------------------------------------------
\* _initialize_episode (demo.py lines 127-157)
\* ------------------------------------------------------------------------
\* Position of instance i in the sorted index tensor env_idx
RowOf(env_idx, i) == Cardinality({j \in env_idx : j < i})

\* Variant: the batched pose is written over every instance, the rows of the
\* reset wrapping round.
set_pose_unmasked(old, env_idx, rows) ==
    [i \in Envs |-> rows[RowOf(env_idx, i) % Cardinality(env_idx)]]

\* Actor.set_pose / Articulation.set_pose during a reset: row r of the batched
\* pose goes to the r-th instance of env_idx, the other instances keep theirs
set_pose(old, env_idx, rows) ==
    [i \in Envs |-> IF i \in env_idx THEN rows[RowOf(env_idx, i)] ELSE old[i]]

\* torch.zeros((b, 3))
zeros_b3(b) == [r \in 0 .. (b - 1) |-> <<0, 0, 0>>]

\* xyz[:, :2] = xy
SetXY(xyz, xy) == [r \in DOMAIN xyz |-> <<xy[r][1], xy[r][2], xyz[r][3]>>]

\* xyz[:, 0] = x, xyz[:, 1] = y, xyz[:, 2] = z for column tensors or scalars
SetX(xyz, x) == [r \in DOMAIN xyz |-> <<x[r], xyz[r][2], xyz[r][3]>>]
SetY(xyz, y) == [r \in DOMAIN xyz |-> <<xyz[r][1], y[r], xyz[r][3]>>]
SetZ(xyz, z) == [r \in DOMAIN xyz |-> <<xyz[r][1], xyz[r][2], z[r]>>]
Fill(b, c) == [r \in 0 .. (b - 1) |-> c]

\* Pose.create_from_pq(xyz, qs) with one quaternion per row
poses_pq(xyz, qs) == [r \in DOMAIN xyz |-> create_from_pq(xyz[r], qs[r])]

\* line 132, 155: torch.rand((b, 2)) * 0.2 - 0.1
cube_xy(t) == [r \in DOMAIN t |-> <<(200 * t[r][1]) \div 1000 - 100, (200 * t[r][2]) \div 1000 - 100>>]
\* line 137: torch.rand((b, 2)) * 0.3 + 0.1
bowl_xy(t) == [r \in DOMAIN t |-> <<(300 * t[r][1]) \div 1000 + 100, (300 * t[r][2]) \div 1000 + 100>>]
\* line 139: -torch.rand((b, 2)) * 0.5 - 0.1
mug_xy(t) == [r \in DOMAIN t |-> <<-((500 * t[r][1]) \div 1000) - 100, -((500 * t[r][2]) \div 1000) - 100>>]
\* line 141: -torch.rand((b, 2)) * 0.4 - 0.1
sugar_box_xy(t) == [r \in DOMAIN t |-> <<-((400 * t[r][1]) \div 1000) - 100, -((400 * t[r][2]) \div 1000) - 100>>]
\* line 143: torch.rand((b, 2)) * 0.4 + 0.1
gelatin_box_xy(t) == [r \in DOMAIN t |-> <<(400 * t[r][1]) \div 1000 + 100, (400 * t[r][2]) \div 1000 + 100>>]
\* Variant: the factor 0.6 applied to 0.7 only.
cabinet_x_precedence(t) == [r \in DOMAIN t |-> (300 * t[r]) \div 1000 + (700 * 600) \div 1000 - 300]

\* line 147: (0.3 * torch.rand((b)) + 0.7) * 0.6 - 0.3
cabinet_x(t) == [r \in DOMAIN t |-> (((300 * t[r]) \div 1000 + 700) * 600) \div 1000 - 300]
\* line 148: -(0.3 * torch.rand((b)) + 0.7) * 1.1 - 0.1
cabinet_y(t) == [r \in DOMAIN t |-> -((((300 * t[r]) \div 1000 + 700) * 1100) \div 1000) - 100]
\* Variant: the division by 2 left out.
cabinet_yaw_undivided(u) == 360 + (360 * u) \div 1000

\* line 150: np.pi + np.random.uniform(0, np.pi) / 2, u the uniform draw in
\* thousandths of its range
cabinet_yaw(u) == 360 + ((360 * u) \div 1000) \div 2
\* line 155: torch.rand((b, 2)) * 0.2 - 0.1
goal_xy(t) == [r \in DOMAIN t |-> <<(200 * t[r][1]) \div 1000 - 100, (200 * t[r][2]) \div 1000 - 100>>]
\* Variant: the offset is the cube's height instead of the buffer's z.
goal_z_from_cube(t, xyz) == [r \in DOMAIN t |-> (300 * t[r]) \div 1000 + cube_half_size]

\* line 156: torch.rand((b)) * 0.3 + xyz[:, 2]
goal_z(t, xyz) == [r \in DOMAIN t |-> (300 * t[r]) \div 1000 + xyz[r][3]]

\* Variant: line 133 left out, z stays 0.
cube_xyz_no_z(seed, b) == SetXY(zeros_b3(b), cube_xy(rand_b2(seed, 0, b)))

\* lines 131-133: the cube's position buffer
cube_xyz(seed, b) ==
    SetZ(SetXY(zeros_b3(b), cube_xy(rand_b2(seed, 0, b))), Fill(b, cube_half_size))

\* lines 146-149: the cabinet's position buffer
cabinet_xyz(seed, b) ==
    SetZ(SetY(SetX(zeros_b3(b), cabinet_x(rand_b(seed, 13 * b, b))),
              cabinet_y(rand_b(seed, 14 * b, b))),
         Fill(b, cabinet_half_size))

\* Variant: the goal's z is offset from the first buffer of the method, the
\* one the cube and the YCB objects are posed from.
goal_xyz_of_stale_buffer(seed, b, xyz) ==
    SetZ(SetXY(zeros_b3(b), goal_xy(rand_b2(seed, 15 * b, b))),
         [r \in 0 .. (b - 1) |-> (300 * rand(seed, 17 * b + r)) \div 1000 + cube_half_size])

\* lines 154-156: the goal's position buffer, z offset from the buffer xyz
\* holds when line 156 runs (the cabinet's)
goal_xyz_of(seed, b, xyz) ==
    SetZ(SetXY(zeros_b3(b), goal_xy(rand_b2(seed, 15 * b, b))),
         goal_z(rand_b(seed, 17 * b, b), xyz))

\* line 130, table_scene.initialize(env_idx): the robot of each reset instance
\* goes back to its rest keyframe, here the nominal tool pose above the table
\* with the nine joints of the Panda at rest and the gripper open
tcp_rest == create_from_pq(<<0, 0, 170>>, <<0, 1000, 0, 0>>)
qvel_rest == <<0, 0, 0, 0, 0, 0, 0, 0, 0>>

\* Each buffer of the method is bound once, in the order the method fills it.
InitializeEpisode(env_idx, seed, u) ==
    \E b \in {Cardinality(env_idx)} :
    \E xyz1 \in {cube_xyz(seed, b)} :
    \E qs1 \in {random_quaternions(seed, 2 * b, b, TRUE, TRUE)} :
    \E xyz2 \in {SetXY(xyz1, bowl_xy(rand_b2(seed, 5 * b, b)))} :
    \E xyz3 \in {SetXY(xyz2, mug_xy(rand_b2(seed, 7 * b, b)))} :
    \E xyz4 \in {SetXY(xyz3, sugar_box_xy(rand_b2(seed, 9 * b, b)))} :
    \E xyz5 \in {SetXY(xyz4, gelatin_box_xy(rand_b2(seed, 11 * b, b)))} :
    \E xyz6 \in {cabinet_xyz(seed, b)} :
    \E qs2 \in {euler2quat(0, 0, cabinet_yaw(u))} :
    \E goal_xyz \in {goal_xyz_of(seed, b, xyz6)} :
        /\ cube' = set_pose(cube, env_idx, poses_pq(xyz1, qs1))
        /\ bowl' = set_pose(bowl, env_idx, poses_pq(xyz2, qs1))
        /\ mug' = set_pose(mug, env_idx, poses_pq(xyz3, qs1))
        /\ sugar_box' = set_pose(sugar_box, env_idx, poses_pq(xyz4, qs1))
        /\ gelatin_box' = set_pose(gelatin_box, env_idx, poses_pq(xyz5, qs1))
        /\ cabinet' = set_pose(cabinet, env_idx, poses_pq(xyz6, Fill(b, qs2)))
        /\ goal_site' = set_pose(goal_site, env_idx, poses_pq(goal_xyz, Fill(b, IdentityQ)))
        /\ tcp' = [i \in Envs |-> IF i \in env_idx THEN tcp_rest ELSE tcp[i]]
        /\ qvel' = [i \in Envs |-> IF i \in env_idx THEN qvel_rest ELSE qvel[i]]
        /\ grasping' = [i \in Envs |-> IF i \in env_idx THEN FALSE ELSE grasping[i]]
        /\ cabinet_draw' =
               [i \in Envs |->
                   IF i \in env_idx
                   THEN <<rand_b(seed, 13 * b, b)[RowOf(env_idx, i)],
                          rand_b(seed, 14 * b, b)[RowOf(env_idx, i)]>>
                   ELSE cabinet_draw[i]]
        /\ just_reset' = env_idx
        /\ UNCHANGED <<obs_mode, results>>

\* ------------------------------------------------------------------------
\* evaluate (demo.py lines 181-193)
\* ------------------------------------------------------------------------
\* lines 182-185: norm(goal - cube) <= goal_thresh, compared on the squares
\* so that no rounding of the root enters
is_obj_placed(i) ==
    SumSq(Sub(goal_site[i].p, cube[i].p)) <= goal_thresh * goal_thresh

\* qvel[..., :-2]
ArmQvel(i) == SubSeq(qvel[i], 1, Len(qvel[i]) - 2)

\* line 187, agent.is_static(threshold): every arm joint velocity within it
is_static(threshold, i) == MaxAbs(ArmQvel(i)) <= threshold

\* line 186, agent.is_grasping(self.cube)
is_grasping(i) == grasping[i]

\* Variant: success also asks for the grasp.
evaluate_needs_grasp ==
    [success |-> [i \in Envs |-> is_obj_placed(i) /\ is_static(200, i) /\ is_grasping(i)],
     is_obj_placed |-> [i \in Envs |-> is_obj_placed(i)],
     is_robot_static |-> [i \in Envs |-> is_static(200, i)],
     is_grasped |-> [i \in Envs |-> is_grasping(i)]]

evaluate ==
    [success |-> [i \in Envs |-> is_obj_placed(i) /\ is_static(200, i)],
     is_obj_placed |-> [i \in Envs |-> is_obj_placed(i)],
     is_robot_static |-> [i \in Envs |-> is_static(200, i)],
     is_grasped |-> [i \in Envs |-> is_grasping(i)]]

\* ------------------------------------------------------------------------
\* compute_dense_reward, compute_normalized_dense_reward (lines 195-222)
\* ------------------------------------------------------------------------
\* a boolean tensor entry used as a number
AsNumber(flag) == IF flag THEN 1000 ELSE 0

\* lines 196-199
reaching_reward(i) == 1000 - Tanh(5 * Norm(Sub(cube[i].p, tcp[i].p)))
\* lines 205-208
place_reward(i) == 1000 - Tanh(5 * Norm(Sub(goal_site[i].p, cube[i].p)))
\* lines 211-213
static_reward(i) == 1000 - Tanh(5 * Norm(ArmQvel(i)))

\* Variant: line 216 left out.
compute_dense_reward_no_override(inf) ==
    [i \in Envs |->
        reaching_reward(i) + AsNumber(inf.is_grasped[i])
        + Mul(place_reward(i), AsNumber(inf.is_grasped[i]))
        + Mul(static_reward(i), AsNumber(inf.is_obj_placed[i]))]

compute_dense_reward(inf) ==
    [i \in Envs |->
        LET r0 == reaching_reward(i)
            r1 == r0 + AsNumber(inf.is_grasped[i])
            r2 == r1 + Mul(place_reward(i), AsNumber(inf.is_grasped[i]))
            r3 == r2 + Mul(static_reward(i), AsNumber(inf.is_obj_placed[i]))
        IN  IF inf.success[i] THEN 5000 ELSE r3]

\* Variant: the sum of four unit terms taken for the maximum.
compute_normalized_dense_reward_by_4(inf) ==
    [i \in Envs |-> compute_dense_reward(inf)[i] \div 4]

compute_normalized_dense_reward(inf) ==
    [i \in Envs |-> compute_dense_reward(inf)[i] \div 5]

\* ------------------------------------------------------------------------
\* _get_obs_extra (lines 166-179)
\* ------------------------------------------------------------------------
\* Variant: the operands of "in" swapped, hay looked for in needle.
ContainsSwapped(needle, hay) ==
    \E k \in 1 .. (Len(needle) - Len(hay) + 1) :
        SubSeq(needle, k, k + Len(hay) - 1) = hay

\* needle in hay, for sequences of characters
Contains(needle, hay) ==
    \E k \in 1 .. (Len(hay) - Len(needle) + 1) :
        SubSeq(hay, k, k + Len(needle) - 1) = needle

State == <<"s", "t", "a", "t", "e">>

get_obs_extra(inf) ==
    LET base ==
            [is_grasped |-> inf.is_grasped,
             tcp_pose |-> [i \in Envs |-> raw_pose(tcp[i])],
             goal_pos |-> [i \in Envs |-> goal_site[i].p]]
        extra ==
            [obj_pose |-> [i \in Envs |-> raw_pose(cube[i])],
             tcp_to_obj_pos |-> [i \in Envs |-> Sub(cube[i].p, tcp[i].p)],
             obj_to_goal_pos |-> [i \in Envs |-> Sub(goal_site[i].p, cube[i].p)]]
    IN  IF Contains(State, obs_mode) THEN extra @@ base ELSE base

\* ------------------------------------------------------------------------
\* Actions
\* ------------------------------------------------------------------------
Evaluate ==
    /\ info' = evaluate
    /\ UNCHANGED <<objects, robot, obs_mode, just_reset, cabinet_draw, reward, nreward, obs>>

ComputeDenseReward ==
    /\ DOMAIN info # {}
    /\ reward' = compute_dense_reward(info)
    /\ UNCHANGED <<objects, robot, obs_mode, just_reset, cabinet_draw, info, nreward, obs>>

ComputeNormalizedDenseReward ==
    /\ DOMAIN info # {}
    /\ nreward' = compute_normalized_dense_reward(info)
    /\ UNCHANGED <<objects, robot, obs_mode, just_reset, cabinet_draw, info, reward, obs>>

GetObsExtra ==
    /\ DOMAIN info # {}
    /\ obs' = get_obs_extra(info)
    /\ UNCHANGED <<objects, robot, obs_mode, just_reset, cabinet_draw, info, reward, nreward>>

\* The host resets any non-empty subset of the instances, after seeding torch's
\* generator; np.random.uniform is numpy's generator, drawn separately.
Reset == \E env_idx \in (SUBSET Envs) \ {{}}, seed \in Seeds, u \in UniformSamples :
    InitializeEpisode(env_idx, seed, u)

\* One step of the host's physics in which the robot of instance i carries the
\* cube to the goal; whatever was just reset has now been stepped.
PhysicsStep == \E i \in Envs :
    /\ cube' = [cube EXCEPT ![i] = create_from_pq(goal_site[i].p, cube[i].q)]
    /\ tcp' = [tcp EXCEPT ![i] = create_from_pq(goal_site[i].p, tcp[i].q)]
    /\ grasping' = [grasping EXCEPT ![i] = TRUE]
    /\ just_reset' = {}
    /\ UNCHANGED <<bowl, mug, sugar_box, gelatin_box, cabinet, goal_site, qvel,
                   obs_mode, cabinet_draw, results>>

\* ------------------------------------------------------------------------
\* Specifications
\* ------------------------------------------------------------------------
\* The observation modes of the host that the model draws from
ObsModes ==
    {<<"s", "t", "a", "t", "e">>,
     <<"s", "t", "a", "t", "e", "_", "d", "i", "c", "t">>,
     <<"n", "o", "n", "e">>,
     <<"r", "g", "b">>,
     <<"s", "e", "n", "s", "o", "r", "_", "d", "a", "t", "a">>}

\* After construction (_load_scene, lines 87-125): the cube at (0, 0, 1), the
\* goal site at the default pose; the builders of the cabinet and of the YCB
\* objects get their pose under the attribute name inital_pose, which the
\* build does not read, so these start at the default pose too.
DefaultPose == create_from_pq(<<0, 0, 0>>, IdentityQ)

Init ==
    /\ cube = [i \in Envs |-> create_from_pq(<<0, 0, 1000>>, IdentityQ)]
    /\ goal_site = [i \in Envs |-> DefaultPose]
    /\ cabinet = [i \in Envs |-> DefaultPose]
    /\ sugar_box = [i \in Envs |-> DefaultPose]
    /\ gelatin_box = [i \in Envs |-> DefaultPose]
    /\ bowl = [i \in Envs |-> DefaultPose]
    /\ mug = [i \in Envs |-> DefaultPose]
    /\ tcp = [i \in Envs |-> tcp_rest]
    /\ qvel = [i \in Envs |-> qvel_rest]
    /\ grasping = [i \in Envs |-> FALSE]
    /\ obs_mode = State
    /\ just_reset = {}
    /\ cabinet_draw = [i \in Envs |-> <<0, 0>>]
    /\ info = << >>
    /\ reward = << >>
    /\ nreward = << >>
    /\ obs = << >>

Next == Reset \/ PhysicsStep

Spec == Init /\ [][Next]_vars

\* States in the middle of an episode, one per instance, that evaluation and
\* reward are applied to: where the cube is relative to the goal, where the
\* tool is, how fast the joints move, whether the gripper holds the cube.
Goal == <<50, -50, 500>>

Scenarios ==
    {\* placed exactly, robot still, cube released, tool lifted
     [cube |-> Goal, tcp |-> <<50, -50, 600>>, qvel |-> qvel_rest, grasping |-> FALSE],
     \* 25 mm from the goal, a joint at 0.2 exactly, cube held
     [cube |-> <<65, -30, 500>>, tcp |-> <<65, -30, 500>>,
      qvel |-> <<200, -200, 0, 0, 0, 0, 0, 0, 0>>, grasping |-> TRUE],
     \* just over 25 mm from the goal (squared distance 626), cube held
     [cube |-> <<65, -30, 501>>, tcp |-> <<65, -30, 501>>, qvel |-> qvel_rest,
      grasping |-> TRUE],
     \* placed and held, one joint at 0.201
     [cube |-> Goal, tcp |-> Goal, qvel |-> <<0, 0, 0, 201, 0, 0, 0, 0, 0>>,
      grasping |-> TRUE],
     \* placed, only the gripper joints moving, cube released
     [cube |-> Goal, tcp |-> <<50, -50, 540>>,
      qvel |-> <<0, 0, 0, 0, 0, 0, 0, 900, 900>>, grasping |-> FALSE],
     \* cube still on the table, robot at rest
     [cube |-> <<-100, 100, 20>>, tcp |-> <<0, 0, 170>>, qvel |-> qvel_rest,
      grasping |-> FALSE],
     \* cube lifted half way, arm moving fast
     [cube |-> <<0, 0, 250>>, tcp |-> <<0, 0, 250>>,
      qvel |-> <<3000, -1500, 0, 0, 800, 0, 0, 0, 0>>, grasping |-> TRUE],
     \* 26 mm from the goal along x, robot still, cube released
     [cube |-> <<76, -50, 500>>, tcp |-> <<76, -50, 560>>, qvel |-> qvel_rest,
      grasping |-> FALSE]}

InitEval ==
    /\ \E sc \in [Envs -> Scenarios] :
        /\ cube = [i \in Envs |-> create_from_pq(sc[i].cube, IdentityQ)]
        /\ tcp = [i \in Envs |-> create_from_pq(sc[i].tcp, tcp_rest.q)]
        /\ qvel = [i \in Envs |-> sc[i].qvel]
        /\ grasping = [i \in Envs |-> sc[i].grasping]
    /\ goal_site = [i \in Envs |-> create_from_pq(Goal, IdentityQ)]
    /\ cabinet = [i \in Envs |-> DefaultPose]
    /\ sugar_box = [i \in Envs |-> DefaultPose]
    /\ gelatin_box = [i \in Envs |-> DefaultPose]
    /\ bowl = [i \in Envs |-> DefaultPose]
    /\ mug = [i \in Envs |-> DefaultPose]
    /\ obs_mode \in ObsModes
    /\ just_reset = {}
    /\ cabinet_draw = [i \in Envs |-> <<0, 0>>]
    /\ info = << >>
    /\ reward = << >>
    /\ nreward = << >>
    /\ obs = << >>

NextEval ==
    Evaluate \/ ComputeDenseReward \/ ComputeNormalizedDenseReward \/ GetObsExtra

SpecEval == InitEval /\ [][NextEval]_vars

\* ------------------------------------------------------------------------
\* Properties
\* ------------------------------------------------------------------------
InfoComputed == DOMAIN info # {}
RewardComputed == DOMAIN reward # {}
NRewardComputed == DOMAIN nreward # {}
ObsComputed == DOMAIN obs # {}

\* squared distance, in mm^2, between the goal site and the cube of instance i
GoalCubeDist2(i) ==
    (goal_site[i].p[1] - cube[i].p[1]) * (goal_site[i].p[1] - cube[i].p[1])
    + (goal_site[i].p[2] - cube[i].p[2]) * (goal_site[i].p[2] - cube[i].p[2])
    + (goal_site[i].p[3] - cube[i].p[3]) * (goal_site[i].p[3] - cube[i].p[3])

\* every joint but the last two moves at no more than 0.2
ArmStill(i) ==
    \A j \in 1 .. (Len(qvel[i]) - 2) : qvel[i][j] <= 200 /\ qvel[i][j] >= -200

\* C1: evaluate() reports success for an instance exactly when the goal site
\* and the cube are at most goal_thresh (25 mm, inclusive) apart and the robot
\* is static; is_grasped is reported as the host gives it and has no part in
\* success.
C1_SuccessIffPlacedAndStatic ==
    InfoComputed =>
        \A i \in Envs :
            /\ info.is_obj_placed[i] <=> (GoalCubeDist2(i) <= 625)
            /\ info.is_robot_static[i] <=> ArmStill(i)
            /\ info.success[i] <=> (GoalCubeDist2(i) <= 625 /\ ArmStill(i))
            /\ info.is_grasped[i] = grasping[i]

\* evaluate() has run on a batch with an instance that is placed at exactly
\* 25 mm, static and success, and one that is placed, static, not grasped
\* and success
C1_Witness ==
    /\ InfoComputed
    /\ \E i \in Envs : GoalCubeDist2(i) = 625 /\ info.success[i]
    /\ \E i \in Envs :
        /\ info.is_obj_placed[i] /\ info.is_robot_static[i]
        /\ ~info.is_grasped[i] /\ info.success[i]

\* the sum of the four shaped terms of instance i, the gated ones counted
\* only when their gate of info is on
ShapedSum(i) ==
    (1000 - Tanh(5 * Norm(Sub(cube[i].p, tcp[i].p))))
    + (IF info.is_grasped[i] THEN 1000 ELSE 0)
    + (IF info.is_grasped[i]
       THEN 1000 - Tanh(5 * Norm(Sub(goal_site[i].p, cube[i].p))) ELSE 0)
    + (IF info.is_obj_placed[i]
       THEN 1000 - Tanh(5 * Norm(SubSeq(qvel[i], 1, Len(qvel[i]) - 2))) ELSE 0)

\* C2: the dense reward of an instance whose info["success"] is true is
\* exactly 5, whatever its shaped terms; an instance whose success is false
\* keeps the sum of its shaped terms.
C2_SuccessOverridesReward ==
    RewardComputed =>
        \A i \in Envs :
            /\ info.success[i] => reward[i] = 5000
            /\ ~info.success[i] => reward[i] = ShapedSum(i)

\* the reward has been computed for a batch with a success instance whose
\* shaped terms sum to something else than 5, and a non-success instance
C2_Witness ==
    /\ RewardComputed
    /\ \E i \in Envs : info.success[i] /\ reward[i] = 5000 /\ ShapedSum(i) < 3000
    /\ \E i \in Envs : ~info.success[i] /\ reward[i] > 3000

\* C3: the normalized reward is the dense reward divided by 5; it is exactly
\* 1 for a success instance and lies in [0, 1] for any other, each of the
\* four shaped terms lying in [0, 1].
C3_NormalizedRewardBounded ==
    NRewardComputed =>
        \A i \in Envs :
            /\ RewardComputed => nreward[i] = reward[i] \div 5
            /\ info.success[i] => nreward[i] = 1000
            /\ ~info.success[i] => nreward[i] >= 0 /\ nreward[i] <= 1000
            /\ reaching_reward(i) >= 0 /\ reaching_reward(i) <= 1000
            /\ place_reward(i) >= 0 /\ place_reward(i) <= 1000
            /\ static_reward(i) >= 0 /\ static_reward(i) <= 1000

\* the normalized reward has been computed for a batch with a success
\* instance and an instance that is placed and grasped, yet not static
C3_Witness ==
    /\ NRewardComputed
    /\ RewardComputed
    /\ \E i \in Envs : info.success[i] /\ nreward[i] = 1000
    /\ \E i \in Envs :
        /\ ~info.success[i] /\ info.is_obj_placed[i] /\ info.is_grasped[i]
        /\ nreward[i] > 600

C5_CabinetYawShared ==
    \A i \in just_reset :
        /\ cabinet[i].q[2] = 0
        /\ cabinet[i].q[3] = 0
        /\ cabinet[i].q[1] <= 0
        /\ cabinet[i].q[4] > 0
        /\ cabinet[i].q[4] >= -cabinet[i].q[1]
        /\ \A j \in just_reset : cabinet[j].q = cabinet[i].q

\* a reset of more than one instance has just run, with the yaw at the upper
\* end, 1.5 pi
C5_Witness ==
    /\ Cardinality(just_reset) > 1
    /\ \A i \in just_reset : cabinet[i].q[1] < 0 /\ cabinet[i].q[4] = -cabinet[i].q[1]

C7_CabinetRangeAsStated ==
    \A i \in just_reset :
        /\ cabinet[i].p[3] = cabinet_half_size
        /\ cabinet[i].p[1] >= 120 /\ cabinet[i].p[1] <= 480
        /\ cabinet[i].p[2] >= -1200 /\ cabinet[i].p[2] <= -870
        /\ cabinet_draw[i][1] = 0 => cabinet[i].p[1] = 120
        /\ cabinet_draw[i][1] = 1000 => cabinet[i].p[1] = 480
        /\ cabinet_draw[i][2] = 0 => cabinet[i].p[2] = -870
        /\ cabinet_draw[i][2] = 1000 => cabinet[i].p[2] = -1200

\* C7 amended: the same with x sweeping [0.12, 0.30]: the highest draw gives
\* x = 0.30.
C7_CabinetRange ==
    \A i \in just_reset :
        /\ cabinet[i].p[3] = cabinet_half_size
        /\ cabinet[i].p[1] >= 120 /\ cabinet[i].p[1] <= 300
        /\ cabinet[i].p[2] >= -1200 /\ cabinet[i].p[2] <= -870
        /\ cabinet_draw[i][1] = 0 => cabinet[i].p[1] = 120
        /\ cabinet_draw[i][1] = 1000 => cabinet[i].p[1] = 300
        /\ cabinet_draw[i][2] = 0 => cabinet[i].p[2] = -870
        /\ cabinet_draw[i][2] = 1000 => cabinet[i].p[2] = -1200

\* a reset has just drawn the highest value for a cabinet's x and the lowest
\* for its y
C7_Witness ==
    \E i \in just_reset :
        /\ cabinet_draw[i][1] = 1000 /\ cabinet[i].p[1] = 300
        /\ cabinet_draw[i][2] = 0 /\ cabinet[i].p[2] = -870
        /\ cabinet[i].p[3] = cabinet_half_size

\* C8: right after a reset the cube of every reset instance has x and y in
\* [-0.1, 0.1] and z = cube_half_size exactly, however many resets, of
\* whatever index sets, came before.
C8_CubeOnTable ==
    \A i \in just_reset :
        /\ cube[i].p[1] >= -100 /\ cube[i].p[1] <= 100
        /\ cube[i].p[2] >= -100 /\ cube[i].p[2] <= 100
        /\ cube[i].p[3] = cube_half_size

\* a partial reset has just put a cube at the edge of its range, while the
\* cube of an instance reset earlier has since been carried to its goal
C8_Witness ==
    \E i \in just_reset, j \in Envs \ just_reset :
        /\ cube[i].p[2] = 100
        /\ cube[i].p[3] = cube_half_size
        /\ cube[j].p = goal_site[j].p
        /\ goal_site[j].p[3] >= cabinet_half_size

\* C9: _get_obs_extra returns exactly the keys is_grasped, tcp_pose and
\* goal_pos when obs_mode has no "state" in it, and those with obj_pose,
\* tcp_to_obj_pos and obj_to_goal_pos when it has; is_grasped is info's.
C9_ObsKeys ==
    ObsComputed =>
        /\ obs_mode \in {<<"s", "t", "a", "t", "e">>,
                         <<"s", "t", "a", "t", "e", "_", "d", "i", "c", "t">>}
            => DOMAIN obs = {"is_grasped", "tcp_pose", "goal_pos", "obj_pose",
                             "tcp_to_obj_pos", "obj_to_goal_pos"}
        /\ obs_mode \in {<<"n", "o", "n", "e">>, <<"r", "g", "b">>,
                         <<"s", "e", "n", "s", "o", "r", "_", "d", "a", "t", "a">>}
            => DOMAIN obs = {"is_grasped", "tcp_pose", "goal_pos"}
        /\ obs.is_grasped = info.is_grasped

\* the extra observation has been computed in the mode state_dict, with a
\* grasped instance in the batch
C9_Witness ==
    /\ ObsComputed
    /\ obs_mode = <<"s", "t", "a", "t", "e", "_", "d", "i", "c", "t">>
    /\ "obj_to_goal_pos" \in DOMAIN obs
    /\ \E i \in Envs : obs.is_grasped[i]

====
